---- MODULE Spec2Model ----
(***************************************************************************)
(* Lending, return and reservation workflow of the library application     *)
(* (books/views.py, books/models.py, library_users/models.py).             *)
(*                                                                         *)
(* The database tables are the state: Book.is_available, the Borrower      *)
(* (loan) rows, the BorrowRequest, ReturnRequest and BookReservation rows  *)
(* and the borrowing fields of UserProfileinfo.  A row id is the row's     *)
(* index in its table; rows are never deleted by the views.                *)
(*                                                                         *)
(* Spec        runs every web view as one step (requests served one at a   *)
(*             time).                                                      *)
(* SpecConc    runs approve_borrow_request one database statement at a     *)
(*             time in several server workers (the views open no           *)
(*             transaction and take no row lock).                          *)
(* SpecReserve runs reserve_book one database statement at a time in       *)
(*             several server workers.                                     *)
(* SpecReturn  runs the two return views one database statement at a time  *)
(*             in several server workers, next to the approval steps.      *)
(* SpecAccess  calls the librarian views with user accounts of any staff   *)
(*             flag and group membership.                                  *)
(* SpecElig    serves borrow requests, of the web view and of the API      *)
(*             action, and approvals for members whose status, limit and   *)
(*             fine balance are drawn from bounded sets.                   *)
(* SpecCatalog adds books to the catalogue.                                *)
(* SpecSweep   runs the periodic expiry sweep of the reservations over a   *)
(*             span of days in which reservations expire.                  *)
(* SpecFine    applies Borrower.calculate_fine to loans drawn from bounded *)
(*             sets.                                                       *)
(***************************************************************************)
EXTENDS Integers, Sequences, FiniteSets, TLC

\* ---------------------------------------------------------------- bounds
NumBooks == 1
NumMembers == 2
MaxRows == 4
MaxDay == 2
NumWorkers == 2
MaxFineDay == 3
MaxDailyFine == 2
NumSerials == 2
NumBarcodes == 2
MaxCatalog == 4
MaxSweepDay == 16

\* ------------------------------------------------------ program constants
QuickBorrowDays == 14
DefaultDurationDays == 14
MinDurationDays == 1
DefaultDailyFine == 1
ReservationDays == 7
DefaultMaxBooksAllowed == 5
FineCeiling == 50

Books == 1..NumBooks
Members == 1..NumMembers
Workers == 1..NumWorkers
Durations == {MinDurationDays, DefaultDurationDays}
NoDate == -1

VARIABLES
    today,            \* the clock: date.today() and timezone.now(), in days
    is_available,     \* Book.is_available, per book
    borrowings,       \* Borrower rows (loans)
    borrow_requests,  \* BorrowRequest rows
    return_requests,  \* ReturnRequest rows
    reservations,     \* BookReservation rows
    profiles,         \* UserProfileinfo rows, per member
    response,         \* the message of the last served request
    workers,          \* each server worker's position in the view it is running
    flow,             \* observer of one borrow workflow (request, approval, return)
    fine_out,         \* SpecFine: the last result of calculate_fine
    catalog,          \* Book rows: serial and barcode, per book id
    failed_dispatches \* tasks whose .delay() raised during the last served request

db == <<is_available, borrowings, borrow_requests, return_requests, reservations, profiles>>
vars == <<today, is_available, borrowings, borrow_requests, return_requests,
          reservations, profiles, response, workers, flow, fine_out,
          catalog, failed_dispatches>>

\* ---------------------------------------------------------------- helpers
Ids(table) == DOMAIN table

\* Rows in the database; the model stops creating rows at MaxRows.
Rows ==
    Len(borrowings) + Len(borrow_requests) + Len(return_requests) + Len(reservations)

\* Borrower.is_overdue, evaluated on the in-memory instance
is_overdue(borrowing, day) ==
    borrowing.due_date < day /\ borrowing.status = "borrowed"

\* Borrower.calculate_fine(daily_fine)
calculate_fine(borrowing, day, daily_fine) ==
    IF is_overdue(borrowing, day)
    THEN (day - borrowing.due_date) * daily_fine
    ELSE 0

\* due_date = date.today() + timedelta(days=requested_duration_days)
DueDate_default_period(day, duration_days) ==
    day + DefaultDurationDays

DueDate(day, duration_days) ==
    day + duration_days

\* The guard of the return views: borrowing.status != 'borrowed'
NotBorrowed_never(borrowing) ==
    FALSE

NotBorrowed(borrowing) ==
    borrowing.status # "borrowed"

\* borrowing.return_date = date.today(); borrowing.status = 'returned'
MarkReturned_date_only(borrowing, day) ==
    [borrowing EXCEPT !.return_date = day]

MarkReturned(borrowing, day) ==
    [borrowing EXCEPT !.return_date = day, !.status = "returned"]

\* The "safe decrement" of current_books_count of both return paths
DecrementBooksCount_kept(count) ==
    count

DecrementBooksCount(count) ==
    IF count > 0 THEN count - 1 ELSE 0

\* BookReservation.objects.filter(book=b, status='active')
ActiveReservations(b) ==
    {k \in Ids(reservations) :
        reservations[k].book = b /\ reservations[k].status = "active"}

\* .order_by('reservation_date').first(): a row with the least reservation_date.
\* The query names no second sort key, so among rows of equal reservation_date
\* the database may return any.
FirstReservations_any(b) ==
    ActiveReservations(b)

FirstReservations(b) ==
    {k \in ActiveReservations(b) :
        \A j \in ActiveReservations(b) :
            reservations[k].reservation_date <= reservations[j].reservation_date}

\* unique_together = ['book', 'user', 'status'] of BookReservation: would row k,
\* saved with the status st, collide with another row?
ReservationUniqueViolation(k, st) ==
    \E j \in Ids(reservations) :
        /\ j # k
        /\ reservations[j].book = reservations[k].book
        /\ reservations[j].user = reservations[k].user
        /\ reservations[j].status = st

\* UserProfileinfo.can_borrow_books
can_borrow_books_ignoring_status(profile) ==
    /\ profile.current_books_count < profile.max_books_allowed
    /\ profile.total_fines < FineCeiling

can_borrow_books(profile) ==
    /\ profile.status = "active"
    /\ profile.current_books_count < profile.max_books_allowed
    /\ profile.total_fines < FineCeiling

\* unique_together = ['book', 'user', 'status'] on INSERT: is there already a
\* row of book b and member u with the status st?
ReservationUniqueOnInsert_unenforced(b, u, st) ==
    FALSE

ReservationUniqueOnInsert(b, u, st) ==
    \E j \in Ids(reservations) :
        /\ reservations[j].book = b
        /\ reservations[j].user = u
        /\ reservations[j].status = st

\* The Celery tasks the return views queue with .delay()
ReturnConfirmation == "send_return_confirmation"
ReservationAvailable == "send_reservation_available_notification"

\* Book.barcode is unique and may be NULL; Book.serial carries no constraint.
NoBarcode == 0
Serials == 1..NumSerials
Barcodes == 1..NumBarcodes

\* The books of the catalogue at the start, one row per book id.
InitialCatalog == [b \in Books |-> [serial |-> b, barcode |-> NoBarcode]]

\* admin_notes = request.POST.get('admin_notes', ''): the note of the form,
\* left empty by the librarian.
NoNotes == ""
AdminNotes == {NoNotes}

\* request.status = ...; request.admin_notes = admin_notes;
\* request.processed_date = timezone.now(), written by one save().  The
\* processed_by of the row is the librarian, who is no member of the model.
Processed(request, status, admin_notes, day) ==
    [request EXCEPT !.status = status, !.admin_notes = admin_notes,
                    !.processed_date = day]

\* if return_request.status != 'pending': warning and redirect
AlreadyProcessed_never(return_request) ==
    FALSE

AlreadyProcessed(return_request) ==
    return_request.status # "pending"

NoRow == [status |-> "none"]
IdleWorker == [pc |-> "idle", request |-> 0, requester |-> NoRow, user |-> 0, book |-> 0,
               view |-> "none", borrowing |-> 0, instance |-> NoRow, borrower |-> NoRow,
               result |-> "none"]
NoFlow == [stage |-> "none", member |-> 0, book |-> 0, request |-> 0,
           loan |-> 0, return_request |-> 0, count0 |-> 0]
NoFine == [called |-> FALSE, daily_fine |-> 0, fine |-> 0]

\* ------------------------------------------------------------------- Init
Init ==
    /\ today = 0
    /\ is_available = [b \in Books |-> TRUE]
    /\ borrowings = <<>>
    /\ borrow_requests = <<>>
    /\ return_requests = <<>>
    /\ reservations = <<>>
    /\ profiles = [m \in Members |->
                     [status |-> "active",
                      max_books_allowed |-> DefaultMaxBooksAllowed,
                      current_books_count |-> 0,
                      total_fines |-> 0]]
    /\ response = "none"
    /\ workers = [w \in Workers |-> IdleWorker]
    /\ flow = NoFlow
    /\ fine_out = NoFine
    /\ catalog = InitialCatalog
    /\ failed_dispatches = {}

\* A day passes.
Tick ==
    /\ today < MaxDay
    /\ today' = today + 1
    /\ UNCHANGED <<db, response, workers, fine_out, catalog, failed_dispatches>>

\* ------------------------------------------------------------ borrow_book
\* POST by member u for book b with duration_days d.
borrow_book(u, b, d) ==
    /\ UNCHANGED <<today, is_available, borrowings, return_requests, reservations, profiles,
                   workers, fine_out, catalog>>
    /\ failed_dispatches' = {}
    /\ IF ~is_available[b]
       THEN /\ response' = "book_not_available"
            /\ UNCHANGED borrow_requests
       ELSE IF \E r \in Ids(borrow_requests) :
                   /\ borrow_requests[r].book = b
                   /\ borrow_requests[r].requester = u
                   /\ borrow_requests[r].status = "pending"
       THEN /\ response' = "request_already_pending"
            /\ UNCHANGED borrow_requests
       ELSE /\ Rows < MaxRows
            /\ borrow_requests' = Append(borrow_requests,
                   [book |-> b, requester |-> u,
                    requested_duration_days |-> d, status |-> "pending",
                    admin_notes |-> NoNotes, processed_date |-> NoDate])
            /\ response' = "request_submitted"

\* ------------------------------------------------------ BookViewSet.borrow
\* POST /api/books/<b>/borrow/ by member u with duration_days d.  The action
\* tests the member's eligibility, the book's availability and the member's
\* open loans of the book; it does not look for a pending request.
api_borrow(u, b, d) ==
    /\ UNCHANGED <<today, is_available, borrowings, return_requests, reservations, profiles,
                   workers, fine_out, catalog>>
    /\ failed_dispatches' = {}
    /\ IF ~can_borrow_books(profiles[u])
       THEN /\ response' = "not_eligible"
            /\ UNCHANGED borrow_requests
       ELSE IF ~is_available[b]
       THEN /\ response' = "book_not_available"
            /\ UNCHANGED borrow_requests
       ELSE IF \E i \in Ids(borrowings) :
                   /\ borrowings[i].book = b
                   /\ borrowings[i].borrower = u
                   /\ borrowings[i].return_date = NoDate
       THEN /\ response' = "already_borrowed"
            /\ UNCHANGED borrow_requests
       ELSE /\ Rows < MaxRows
            /\ borrow_requests' = Append(borrow_requests,
                   [book |-> b, requester |-> u,
                    requested_duration_days |-> d, status |-> "pending",
                    admin_notes |-> NoNotes, processed_date |-> NoDate])
            /\ response' = "request_created"

\* ------------------------------------------------- approve_borrow_request
\* The book of the request is no longer available: an error message and a
\* redirect; nothing is saved.
refuse_approval_auto_deny(r) ==
    /\ response' = "book_no_longer_available"
    /\ borrow_requests' = [borrow_requests EXCEPT ![r].status = "denied"]
    /\ UNCHANGED <<is_available, borrowings, profiles>>

refuse_approval(r) ==
    /\ response' = "book_no_longer_available"
    /\ UNCHANGED <<is_available, borrowings, borrow_requests, profiles>>

\* POST by a librarian for request r.
approve_borrow_request(r) ==
    /\ UNCHANGED <<today, return_requests, reservations,
                   workers, fine_out, catalog>>
    /\ failed_dispatches' = {}
    /\ IF borrow_requests[r].status # "pending"
       THEN /\ response' = "not_found"
            /\ UNCHANGED <<is_available, borrowings, borrow_requests, profiles>>
       ELSE IF ~is_available[borrow_requests[r].book]
       THEN refuse_approval(r)
       ELSE LET req == borrow_requests[r] IN
            /\ Rows < MaxRows
            /\ borrowings' = Append(borrowings,
                   [book |-> req.book, borrower |-> req.requester,
                    due_date |-> DueDate(today, req.requested_duration_days),
                    return_date |-> NoDate, status |-> "borrowed",
                    fine_amount |-> 0])
            /\ is_available' = [is_available EXCEPT ![req.book] = FALSE]
            /\ profiles' = [profiles EXCEPT ![req.requester].current_books_count = @ + 1]
            /\ \E admin_notes \in AdminNotes :
                   borrow_requests' = [borrow_requests EXCEPT
                       ![r] = Processed(@, "approved", admin_notes, today)]
            /\ response' = "borrow_approved"

\* ---------------------------------------------------- deny_borrow_request
deny_borrow_request(r) ==
    /\ UNCHANGED <<today, is_available, borrowings, return_requests, reservations, profiles,
                   workers, fine_out, catalog>>
    /\ failed_dispatches' = {}
    /\ IF borrow_requests[r].status # "pending"
       THEN /\ response' = "not_found"
            /\ UNCHANGED borrow_requests
       ELSE /\ \E admin_notes \in AdminNotes :
                   borrow_requests' = [borrow_requests EXCEPT
                       ![r] = Processed(@, "denied", admin_notes, today)]
            /\ response' = "borrow_denied"

\* ----------------------------------------------------------- quick_borrow
\* Any request method, by member u for book b.
quick_borrow(u, b) ==
    /\ UNCHANGED <<today, borrow_requests, return_requests, reservations, profiles,
                   workers, fine_out, catalog>>
    /\ failed_dispatches' = {}
    /\ IF ~is_available[b]
       THEN /\ response' = "book_not_available"
            /\ UNCHANGED <<is_available, borrowings>>
       ELSE /\ Rows < MaxRows
            /\ borrowings' = Append(borrowings,
                   [book |-> b, borrower |-> u,
                    due_date |-> DueDate(today, QuickBorrowDays),
                    return_date |-> NoDate, status |-> "borrowed",
                    fine_amount |-> 0])
            /\ is_available' = [is_available EXCEPT ![b] = FALSE]
            /\ response' = "quick_borrowed"

\* ------------------------------------------------------------ return_book
\* POST by member u for loan i: a return request is opened.
return_book(u, i) ==
    /\ UNCHANGED <<today, is_available, borrowings, borrow_requests, reservations, profiles,
                   workers, fine_out, catalog>>
    /\ failed_dispatches' = {}
    /\ IF borrowings[i].borrower # u
       THEN /\ response' = "not_found"
            /\ UNCHANGED return_requests
       ELSE IF NotBorrowed(borrowings[i])
       THEN /\ response' = "already_returned"
            /\ UNCHANGED return_requests
       ELSE IF \E q \in Ids(return_requests) :
                   /\ return_requests[q].borrowing = i
                   /\ return_requests[q].requester = u
                   /\ return_requests[q].status = "pending"
       THEN /\ response' = "request_already_pending"
            /\ UNCHANGED return_requests
       ELSE /\ Rows < MaxRows
            /\ return_requests' = Append(return_requests,
                   [borrowing |-> i, requester |-> u, status |-> "pending",
                    admin_notes |-> NoNotes, processed_date |-> NoDate])
            /\ response' = "request_submitted"

\* ------------------------------------------------- approve_return_request
\* POST by a librarian for return request q.  The loan instance is marked
\* returned in memory before is_overdue is read.  In the overdue branch
\* calculate_fine returns a float that is added to the Decimal total_fines,
\* which raises before any save.  The reservation queue is only notified.
\* Each .delay() sits in a try/except that logs the exception and goes on.
approve_return_request(q) ==
    /\ UNCHANGED <<today, borrow_requests, reservations,
                   workers, fine_out, catalog>>
    /\ IF AlreadyProcessed(return_requests[q])
       THEN /\ response' = "already_processed"
            /\ failed_dispatches' = {}
            /\ UNCHANGED <<is_available, borrowings, return_requests, profiles>>
       ELSE IF NotBorrowed(borrowings[return_requests[q].borrowing])
       THEN /\ response' = "already_returned"
            /\ failed_dispatches' = {}
            /\ UNCHANGED <<is_available, borrowings, return_requests, profiles>>
       ELSE LET i == return_requests[q].borrowing
                borrowing == MarkReturned(borrowings[i], today)
            IN  IF is_overdue(borrowing, today)
                THEN /\ response' = "server_error"
                     /\ failed_dispatches' = {}
                     /\ UNCHANGED <<is_available, borrowings, return_requests, profiles>>
                ELSE /\ failed_dispatches' \in SUBSET
                            ({ReturnConfirmation} \cup
                             IF ActiveReservations(borrowing.book) = {}
                             THEN {} ELSE {ReservationAvailable})
                     /\ borrowings' = [borrowings EXCEPT ![i] = borrowing]
                     /\ is_available' = [is_available EXCEPT ![borrowing.book] = TRUE]
                     /\ profiles' = [profiles EXCEPT
                            ![borrowing.borrower].current_books_count =
                                DecrementBooksCount(@)]
                     /\ \E admin_notes \in AdminNotes :
                            return_requests' = [return_requests EXCEPT
                                ![q] = Processed(@, "approved", admin_notes, today)]
                     /\ response' = "return_approved"

\* ---------------------------------------------------- deny_return_request
\* POST by a librarian for return request q.
deny_return_request_processing_return(q) ==
    approve_return_request(q)

deny_return_request(q) ==
    /\ UNCHANGED <<today, is_available, borrowings, borrow_requests, reservations, profiles,
                   workers, fine_out, catalog>>
    /\ failed_dispatches' = {}
    /\ IF AlreadyProcessed(return_requests[q])
       THEN /\ response' = "already_processed"
            /\ UNCHANGED return_requests
       ELSE /\ \E admin_notes \in AdminNotes :
                   return_requests' = [return_requests EXCEPT
                       ![q] = Processed(@, "denied", admin_notes, today)]
            /\ response' = "return_denied"

\* ------------------------------------------------ process_return_directly
\* Any request method, by any logged-in user u, for loan i.  Same return
\* steps as approve_return_request; then the first active reservation of the
\* book is saved as fulfilled.  Every save is committed on its own, so an
\* IntegrityError of the reservation save leaves the return in place.  Each
\* .delay() sits in a try/except that logs the exception and goes on.
process_return_directly(u, i) ==
    /\ UNCHANGED <<today, borrow_requests, return_requests,
                   workers, fine_out, catalog>>
    /\ IF NotBorrowed(borrowings[i])
       THEN /\ response' = "already_returned"
            /\ failed_dispatches' = {}
            /\ UNCHANGED <<is_available, borrowings, reservations, profiles>>
       ELSE LET borrowing == MarkReturned(borrowings[i], today)
            IN  IF is_overdue(borrowing, today)
                THEN /\ response' = "server_error"
                     /\ failed_dispatches' = {}
                     /\ UNCHANGED <<is_available, borrowings, reservations, profiles>>
                ELSE /\ borrowings' = [borrowings EXCEPT ![i] = borrowing]
                     /\ is_available' = [is_available EXCEPT ![borrowing.book] = TRUE]
                     /\ profiles' = [profiles EXCEPT
                            ![borrowing.borrower].current_books_count =
                                DecrementBooksCount(@)]
                     /\ IF ActiveReservations(borrowing.book) = {}
                        THEN /\ UNCHANGED reservations
                             /\ failed_dispatches' \in SUBSET {ReturnConfirmation}
                             /\ response' = "returned"
                        ELSE \E k \in FirstReservations(borrowing.book) :
                                IF ReservationUniqueViolation(k, "fulfilled")
                                THEN /\ UNCHANGED reservations
                                     /\ failed_dispatches' \in SUBSET {ReturnConfirmation}
                                     /\ response' = "server_error"
                                ELSE /\ reservations' = [reservations EXCEPT
                                            ![k].status = "fulfilled"]
                                     /\ failed_dispatches' \in SUBSET
                                            {ReturnConfirmation, ReservationAvailable}
                                     /\ response' = "returned"

\* ----------------------------------------------------------- reserve_book
\* expiry_date = date.today() + timedelta(days=7)
ExpiryDate_same_day(day) ==
    day

ExpiryDate(day) ==
    day + ReservationDays

\* Any request method, by member u for book b.
reserve_book(u, b) ==
    /\ UNCHANGED <<today, is_available, borrowings, borrow_requests, return_requests, profiles,
                   workers, fine_out, catalog>>
    /\ failed_dispatches' = {}
    /\ IF is_available[b]
       THEN /\ response' = "book_is_available"
            /\ UNCHANGED reservations
       ELSE IF \E k \in Ids(reservations) :
                   /\ reservations[k].book = b
                   /\ reservations[k].user = u
                   /\ reservations[k].status = "active"
       THEN /\ response' = "already_reserved"
            /\ UNCHANGED reservations
       ELSE /\ Rows < MaxRows
            /\ reservations' = Append(reservations,
                   [book |-> b, user |-> u, reservation_date |-> today,
                    expiry_date |-> ExpiryDate(today), status |-> "active"])
            /\ response' = "reserved"

\* ------------------------------------------------------------------- Spec
\* The observer follows one workflow: a member's borrow request, its approval
\* and the return of the loan it created, with no other request in between
\* (days may pass).  It records the member's current_books_count before the
\* workflow started.
FlowRequest ==
    \E u \in Members, b \in Books, d \in Durations :
        /\ borrow_book(u, b, d)
        /\ Len(borrow_requests') = Len(borrow_requests) + 1
        /\ flow' = [NoFlow EXCEPT !.stage = "requested", !.member = u, !.book = b,
                                  !.request = Len(borrow_requests'),
                                  !.count0 = profiles[u].current_books_count]

FlowApprove ==
    /\ flow.stage = "requested"
    /\ approve_borrow_request(flow.request)
    /\ Len(borrowings') = Len(borrowings) + 1
    /\ flow' = [flow EXCEPT !.stage = "approved", !.loan = Len(borrowings')]

FlowReturnDirectly ==
    /\ flow.stage = "approved"
    /\ \E u \in Members : process_return_directly(u, flow.loan)
    /\ flow' = [flow EXCEPT !.stage = "done"]

FlowReturnRequest ==
    /\ flow.stage = "approved"
    /\ return_book(flow.member, flow.loan)
    /\ Len(return_requests') = Len(return_requests) + 1
    /\ flow' = [flow EXCEPT !.stage = "return_requested",
                            !.return_request = Len(return_requests')]

FlowReturnApprove ==
    /\ flow.stage = "return_requested"
    /\ approve_return_request(flow.return_request)
    /\ flow' = [flow EXCEPT !.stage = "done"]

\* One served request, whole, per step.
Next ==
    \/ Tick /\ UNCHANGED flow
    \/ (\E u \in Members, b \in Books, d \in Durations : borrow_book(u, b, d))
           /\ flow' = NoFlow
    \/ (\E r \in Ids(borrow_requests) : approve_borrow_request(r)) /\ flow' = NoFlow
    \/ (\E r \in Ids(borrow_requests) : deny_borrow_request(r)) /\ flow' = NoFlow
    \/ (\E u \in Members, b \in Books : quick_borrow(u, b)) /\ flow' = NoFlow
    \/ (\E u \in Members, i \in Ids(borrowings) : return_book(u, i)) /\ flow' = NoFlow
    \/ (\E q \in Ids(return_requests) : approve_return_request(q)) /\ flow' = NoFlow
    \/ (\E q \in Ids(return_requests) : deny_return_request(q)) /\ flow' = NoFlow
    \/ (\E u \in Members, i \in Ids(borrowings) : process_return_directly(u, i))
           /\ flow' = NoFlow
    \/ (\E u \in Members, b \in Books : reserve_book(u, b)) /\ flow' = NoFlow
    \/ FlowRequest
    \/ FlowApprove
    \/ FlowReturnDirectly
    \/ FlowReturnRequest
    \/ FlowReturnApprove

Spec == Init /\ [][Next]_vars

\* --------------------------------------------------------------- SpecConc
\* approve_borrow_request in worker w, one database statement per step.  The
\* view runs in autocommit mode: no transaction.atomic, no select_for_update.
\* Model.save() writes every field of the instance the worker holds.

\* get_object_or_404(BorrowRequest, id=r, status='pending')
abr_get_request(w, r) ==
    /\ workers[w].pc = "idle"
    /\ IF borrow_requests[r].status # "pending"
       THEN /\ response' = "not_found"
            /\ UNCHANGED workers
       ELSE /\ workers' = [workers EXCEPT ![w] = [IdleWorker EXCEPT
                                                  !.pc = "check_book", !.request = r]]
            /\ UNCHANGED response
    /\ UNCHANGED <<today, db, flow, fine_out, catalog, failed_dispatches>>

\* borrow_request.book is fetched and its is_available is tested
abr_check_book(w) ==
    /\ workers[w].pc = "check_book"
    /\ IF ~is_available[borrow_requests[workers[w].request].book]
       THEN /\ response' = "book_no_longer_available"
            /\ workers' = [workers EXCEPT ![w] = IdleWorker]
       ELSE /\ workers' = [workers EXCEPT ![w].pc = "create_borrowing"]
            /\ UNCHANGED response
    /\ UNCHANGED <<today, db, flow, fine_out, catalog, failed_dispatches>>

\* Borrower.objects.create(...)
abr_create_borrowing(w) ==
    /\ workers[w].pc = "create_borrowing"
    /\ Rows < MaxRows
    /\ LET req == borrow_requests[workers[w].request] IN
       borrowings' = Append(borrowings,
           [book |-> req.book, borrower |-> req.requester,
            due_date |-> DueDate(today, req.requested_duration_days),
            return_date |-> NoDate, status |-> "borrowed", fine_amount |-> 0])
    /\ workers' = [workers EXCEPT ![w].pc = "save_book"]
    /\ UNCHANGED <<today, is_available, borrow_requests, return_requests,
                   reservations, profiles, response,
                   flow, fine_out, catalog, failed_dispatches>>

\* borrow_request.book.is_available = False; borrow_request.book.save()
abr_save_book(w) ==
    /\ workers[w].pc = "save_book"
    /\ is_available' = [is_available EXCEPT
           ![borrow_requests[workers[w].request].book] = FALSE]
    /\ workers' = [workers EXCEPT ![w].pc = "load_requester"]
    /\ UNCHANGED <<today, borrowings, borrow_requests, return_requests,
                   reservations, profiles, response,
                   flow, fine_out, catalog, failed_dispatches>>

\* borrow_request.requester is fetched (first use of the relation)
abr_load_requester(w) ==
    /\ workers[w].pc = "load_requester"
    /\ workers' = [workers EXCEPT
           ![w].pc = "save_requester",
           ![w].requester = profiles[borrow_requests[workers[w].request].requester]]
    /\ UNCHANGED <<today, db, response, flow, fine_out, catalog, failed_dispatches>>

\* borrow_request.requester.current_books_count += 1; .save()
abr_save_requester(w) ==
    /\ workers[w].pc = "save_requester"
    /\ profiles' = [profiles EXCEPT
           ![borrow_requests[workers[w].request].requester] =
               [workers[w].requester EXCEPT !.current_books_count = @ + 1]]
    /\ workers' = [workers EXCEPT ![w].pc = "save_request"]
    /\ UNCHANGED <<today, is_available, borrowings, borrow_requests, return_requests,
                   reservations, response,
                   flow, fine_out, catalog, failed_dispatches>>

\* borrow_request.status = 'approved'; borrow_request.save()
abr_save_request(w) ==
    /\ workers[w].pc = "save_request"
    /\ \E admin_notes \in AdminNotes :
           borrow_requests' = [borrow_requests EXCEPT
               ![workers[w].request] = Processed(@, "approved", admin_notes, today)]
    /\ workers' = [workers EXCEPT ![w] = IdleWorker]
    /\ response' = "borrow_approved"
    /\ UNCHANGED <<today, is_available, borrowings, return_requests, reservations, profiles,
                   flow, fine_out, catalog, failed_dispatches>>

NextConc ==
    \/ (\E u \in Members, b \in Books, d \in Durations : borrow_book(u, b, d))
           /\ UNCHANGED flow
    \/ \E w \in Workers, r \in Ids(borrow_requests) : abr_get_request(w, r)
    \/ \E w \in Workers : abr_check_book(w)
    \/ \E w \in Workers : abr_create_borrowing(w)
    \/ \E w \in Workers : abr_save_book(w)
    \/ \E w \in Workers : abr_load_requester(w)
    \/ \E w \in Workers : abr_save_requester(w)
    \/ \E w \in Workers : abr_save_request(w)

SpecConc == Init /\ [][NextConc]_vars

\* ------------------------------------------------------------ SpecReserve
\* reserve_book in worker w, one database statement per step, next to whole
\* quick_borrow and process_return_directly requests.

\* get_object_or_404(Book, id=b); if book.is_available: error and redirect
rb_get_book(w, u, b) ==
    /\ workers[w].pc = "idle"
    /\ IF is_available[b]
       THEN /\ response' = "book_is_available"
            /\ UNCHANGED workers
       ELSE /\ workers' = [workers EXCEPT ![w] = [IdleWorker EXCEPT
                                !.pc = "check_existing", !.user = u, !.book = b]]
            /\ UNCHANGED response
    /\ UNCHANGED <<today, db, flow, fine_out, catalog, failed_dispatches>>

\* BookReservation.objects.filter(book, user, status='active').exists()
rb_check_existing(w) ==
    /\ workers[w].pc = "check_existing"
    /\ IF \E k \in ActiveReservations(workers[w].book) :
              reservations[k].user = workers[w].user
       THEN /\ response' = "already_reserved"
            /\ workers' = [workers EXCEPT ![w] = IdleWorker]
       ELSE /\ workers' = [workers EXCEPT ![w].pc = "create_reservation"]
            /\ UNCHANGED response
    /\ UNCHANGED <<today, db, flow, fine_out, catalog, failed_dispatches>>

\* BookReservation.objects.create(...): the INSERT raises IntegrityError when
\* the unique constraint is violated, and the request ends in a server error.
rb_create_reservation(w) ==
    /\ workers[w].pc = "create_reservation"
    /\ IF ReservationUniqueOnInsert(workers[w].book, workers[w].user, "active")
       THEN /\ response' = "server_error"
            /\ UNCHANGED reservations
       ELSE /\ Rows < MaxRows
            /\ reservations' = Append(reservations,
                   [book |-> workers[w].book, user |-> workers[w].user,
                    reservation_date |-> today,
                    expiry_date |-> ExpiryDate(today), status |-> "active"])
            /\ response' = "reserved"
    /\ workers' = [workers EXCEPT ![w] = IdleWorker]
    /\ UNCHANGED <<today, is_available, borrowings, borrow_requests, return_requests,
                   profiles, flow, fine_out, catalog, failed_dispatches>>

NextReserve ==
    \/ (\E u \in Members, b \in Books : quick_borrow(u, b)) /\ UNCHANGED flow
    \/ (\E u \in Members, i \in Ids(borrowings) : process_return_directly(u, i))
           /\ UNCHANGED flow
    \/ \E w \in Workers, u \in Members, b \in Books : rb_get_book(w, u, b)
    \/ \E w \in Workers : rb_check_existing(w)
    \/ \E w \in Workers : rb_create_reservation(w)

SpecReserve == Init /\ [][NextReserve]_vars

\* ------------------------------------------------------------ SpecCatalog
\* form_name_view: a librarian posts the new-book form.  NewBook_form is a
\* ModelForm: is_valid() runs the model's unique checks, which cover barcode
\* (unique=True) and not serial.  form.save() inserts the row; a new Book is
\* available.
add_book(serial, barcode) ==
    /\ IF /\ barcode # NoBarcode
          /\ \E b \in Ids(catalog) : catalog[b].barcode = barcode
       THEN /\ response' = "form_errors"
            /\ UNCHANGED <<catalog, is_available>>
       ELSE /\ Len(catalog) < MaxCatalog
            /\ catalog' = Append(catalog, [serial |-> serial, barcode |-> barcode])
            /\ is_available' = [b \in Ids(catalog') |->
                                   IF b \in Ids(catalog) THEN is_available[b] ELSE TRUE]
            /\ response' = "book_added"
    /\ failed_dispatches' = {}
    /\ UNCHANGED <<today, borrowings, borrow_requests, return_requests, reservations,
                   profiles, workers, flow, fine_out>>

NextCatalog ==
    \E serial \in Serials, barcode \in {NoBarcode} \cup Barcodes : add_book(serial, barcode)

SpecCatalog == Init /\ [][NextCatalog]_vars

\* -------------------------------------------------------------- SpecSweep
\* The periodic task cleanup_expired_reservations next to the views that
\* create reservations, over a span of days long enough for reservations to
\* expire.

\* BookReservation.objects.filter(expiry_date__date__lt=date.today(),
\*                                status='active')
ExpiredReservations ==
    {k \in Ids(reservations) :
        reservations[k].status = "active" /\ reservations[k].expiry_date < today}

\* expired_reservations.update(status='expired') is one UPDATE statement: a
\* row that would collide under unique_together (book, user, status) makes
\* the whole statement fail with IntegrityError, and the task raises.
cleanup_expired_reservations ==
    /\ IF \E k \in ExpiredReservations : ReservationUniqueViolation(k, "expired")
       THEN /\ response' = "task_failed"
            /\ UNCHANGED reservations
       ELSE /\ response' = "task_done"
            /\ reservations' = [k \in Ids(reservations) |->
                   IF k \in ExpiredReservations
                   THEN [reservations[k] EXCEPT !.status = "expired"]
                   ELSE reservations[k]]
    /\ failed_dispatches' = {}
    /\ UNCHANGED <<today, is_available, borrowings, borrow_requests, return_requests,
                   profiles, workers, flow, fine_out, catalog>>

\* Days pass between two requests: one day, or a whole reservation period.
DaySteps == {1, ReservationDays}

TickSweep(days) ==
    /\ today + days <= MaxSweepDay
    /\ today' = today + days
    /\ UNCHANGED <<db, response, workers, flow, fine_out, catalog, failed_dispatches>>

NextSweep ==
    \/ \E days \in DaySteps : TickSweep(days)
    \/ (\E u \in Members, b \in Books : quick_borrow(u, b)) /\ UNCHANGED flow
    \/ (\E u \in Members, b \in Books : reserve_book(u, b)) /\ UNCHANGED flow
    \/ cleanup_expired_reservations

SpecSweep == Init /\ [][NextSweep]_vars

\* --------------------------------------------------------------- SpecFine
\* calculate_fine applied to one loan row drawn from bounded sets, on a day
\* drawn from a bounded set, with a bounded daily rate.
FineDays == 0..MaxFineDay
DailyFines == 1..MaxDailyFine

InitFine ==
    /\ today \in FineDays
    /\ \E due \in FineDays, ret \in {NoDate} \cup FineDays :
          /\ ret <= today
          /\ borrowings = << [book |-> 1, borrower |-> 1, due_date |-> due,
                              return_date |-> ret,
                              status |-> IF ret = NoDate THEN "borrowed" ELSE "returned",
                              fine_amount |-> 0] >>
          /\ is_available = [b \in Books |-> b # 1 \/ ret # NoDate]
    /\ borrow_requests = <<>>
    /\ return_requests = <<>>
    /\ reservations = <<>>
    /\ profiles = [m \in Members |->
                     [status |-> "active",
                      max_books_allowed |-> DefaultMaxBooksAllowed,
                      current_books_count |-> 0,
                      total_fines |-> 0]]
    /\ response = "none"
    /\ workers = [w \in Workers |-> IdleWorker]
    /\ flow = NoFlow
    /\ fine_out = NoFine
    /\ catalog = InitialCatalog
    /\ failed_dispatches = {}

apply_calculate_fine(daily_fine) ==
    /\ fine_out' = [called |-> TRUE, daily_fine |-> daily_fine,
                    fine |-> calculate_fine(borrowings[1], today, daily_fine)]
    /\ UNCHANGED <<today, db, response, workers, flow, catalog, failed_dispatches>>

NextFine == \E daily_fine \in DailyFines : apply_calculate_fine(daily_fine)

SpecFine == InitFine /\ [][NextFine]_vars

\* --------------------------------------------------------------- SpecElig
\* Borrow requests and approvals for members whose status, borrowing limit and
\* fine balance were set by an administrator before the requests are served.
ProfileStatuses == {"active", "suspended"}
BookLimits == {1, DefaultMaxBooksAllowed}
FineBalances == {0, FineCeiling - 1, FineCeiling}

InitElig ==
    /\ today = 0
    /\ is_available = [b \in Books |-> TRUE]
    /\ borrowings = <<>>
    /\ borrow_requests = <<>>
    /\ return_requests = <<>>
    /\ reservations = <<>>
    /\ profiles \in [Members ->
                       [status : ProfileStatuses,
                        max_books_allowed : BookLimits,
                        current_books_count : {0},
                        total_fines : FineBalances]]
    /\ response = "none"
    /\ workers = [w \in Workers |-> IdleWorker]
    /\ flow = NoFlow
    /\ fine_out = NoFine
    /\ catalog = InitialCatalog
    /\ failed_dispatches = {}

NextElig ==
    \/ (\E u \in Members, b \in Books, d \in Durations : borrow_book(u, b, d))
           /\ UNCHANGED flow
    \/ (\E u \in Members, b \in Books, d \in Durations : api_borrow(u, b, d))
           /\ UNCHANGED flow
    \/ (\E r \in Ids(borrow_requests) : approve_borrow_request(r)) /\ UNCHANGED flow
    \/ (\E u \in Members, i \in Ids(borrowings) : process_return_directly(u, i))
           /\ UNCHANGED flow

SpecElig == InitElig /\ [][NextElig]_vars

\* ------------------------------------------------------------- SpecReturn
\* The two return views, process_return_directly and approve_return_request,
\* in worker w, one database statement per step, next to the approval steps
\* of SpecConc and whole borrow_book and return_book requests.  The code
\* between "borrowing.return_date = date.today()" and the save of the
\* borrower is the same in both views.  An idle worker keeps the loan and the
\* result of the request it served last.

\* The worker served its request for loan i with the given result.
Served(i, result) ==
    [IdleWorker EXCEPT !.borrowing = i, !.result = result]

\* process_return_directly, by any logged-in user, for loan i:
\* get_object_or_404(Borrower, id=i); if borrowing.status != 'borrowed': error.
\* Then, on the instance in memory: return_date = date.today(),
\* status = 'returned'; is_overdue is read after that.
prd_get_borrowing(w, i) ==
    /\ workers[w].pc = "idle"
    /\ IF NotBorrowed(borrowings[i])
       THEN /\ response' = "already_returned"
            /\ workers' = [workers EXCEPT ![w] = Served(i, "already_returned")]
       ELSE LET borrowing == MarkReturned(borrowings[i], today)
            IN  IF is_overdue(borrowing, today)
                THEN /\ response' = "server_error"
                     /\ workers' = [workers EXCEPT ![w] = Served(i, "server_error")]
                ELSE /\ workers' = [workers EXCEPT ![w] = [IdleWorker EXCEPT
                            !.pc = "return_save_borrowing", !.view = "process_return_directly",
                            !.borrowing = i, !.instance = borrowing]]
                     /\ UNCHANGED response
    /\ UNCHANGED <<today, db, flow, fine_out, catalog, failed_dispatches>>

\* approve_return_request, by a librarian, for return request q:
\* get_object_or_404(ReturnRequest, id=q); if status != 'pending': warning.
arr_get_request(w, q) ==
    /\ workers[w].pc = "idle"
    /\ IF AlreadyProcessed(return_requests[q])
       THEN /\ response' = "already_processed"
            /\ workers' = [workers EXCEPT ![w] =
                   Served(return_requests[q].borrowing, "already_processed")]
       ELSE /\ workers' = [workers EXCEPT ![w] = [IdleWorker EXCEPT
                   !.pc = "get_borrowing", !.view = "approve_return_request",
                   !.request = q]]
            /\ UNCHANGED response
    /\ UNCHANGED <<today, db, flow, fine_out, catalog, failed_dispatches>>

\* return_request.borrowing is fetched (first use of the relation);
\* if borrowing.status != 'borrowed': error.  Then the instance is marked
\* returned in memory as in process_return_directly.
arr_get_borrowing(w) ==
    /\ workers[w].pc = "get_borrowing"
    /\ LET i == return_requests[workers[w].request].borrowing IN
       IF NotBorrowed(borrowings[i])
       THEN /\ response' = "already_returned"
            /\ workers' = [workers EXCEPT ![w] = Served(i, "already_returned")]
       ELSE LET borrowing == MarkReturned(borrowings[i], today)
            IN  IF is_overdue(borrowing, today)
                THEN /\ response' = "server_error"
                     /\ workers' = [workers EXCEPT ![w] = Served(i, "server_error")]
                ELSE /\ workers' = [workers EXCEPT ![w].pc = "return_save_borrowing",
                                                   ![w].borrowing = i,
                                                   ![w].instance = borrowing]
                     /\ UNCHANGED response
    /\ UNCHANGED <<today, db, flow, fine_out, catalog, failed_dispatches>>

\* borrowing.save(): every field of the instance is written
ret_save_borrowing(w) ==
    /\ workers[w].pc = "return_save_borrowing"
    /\ borrowings' = [borrowings EXCEPT ![workers[w].borrowing] = workers[w].instance]
    /\ workers' = [workers EXCEPT ![w].pc = "return_save_book"]
    /\ UNCHANGED <<today, is_available, borrow_requests, return_requests,
                   reservations, profiles, response,
                   flow, fine_out, catalog, failed_dispatches>>

\* borrowing.book.is_available = True; borrowing.book.save()
ret_save_book(w) ==
    /\ workers[w].pc = "return_save_book"
    /\ is_available' = [is_available EXCEPT ![workers[w].instance.book] = TRUE]
    /\ workers' = [workers EXCEPT ![w].pc = "return_load_borrower"]
    /\ UNCHANGED <<today, borrowings, borrow_requests, return_requests,
                   reservations, profiles, response,
                   flow, fine_out, catalog, failed_dispatches>>

\* borrowing.borrower is fetched (first use of the relation)
ret_load_borrower(w) ==
    /\ workers[w].pc = "return_load_borrower"
    /\ workers' = [workers EXCEPT
           ![w].pc = "return_save_borrower",
           ![w].borrower = profiles[workers[w].instance.borrower]]
    /\ UNCHANGED <<today, db, response, flow, fine_out, catalog, failed_dispatches>>

\* the "safe decrement" on the fetched borrower; borrowing.borrower.save()
ret_save_borrower(w) ==
    /\ workers[w].pc = "return_save_borrower"
    /\ profiles' = [profiles EXCEPT
           ![workers[w].instance.borrower] =
               [workers[w].borrower EXCEPT
                   !.current_books_count = DecrementBooksCount(@)]]
    /\ workers' = [workers EXCEPT ![w].pc =
           IF workers[w].view = "approve_return_request"
           THEN "return_save_request" ELSE "fulfil_reservation"]
    /\ UNCHANGED <<today, is_available, borrowings, borrow_requests, return_requests,
                   reservations, response,
                   flow, fine_out, catalog, failed_dispatches>>

\* process_return_directly: the first active reservation is saved as fulfilled
prd_fulfil_reservation(w) ==
    /\ workers[w].pc = "fulfil_reservation"
    /\ LET book == workers[w].instance.book IN
       IF ActiveReservations(book) = {}
       THEN /\ UNCHANGED reservations
            /\ response' = "returned"
       ELSE \E k \in FirstReservations(book) :
               IF ReservationUniqueViolation(k, "fulfilled")
               THEN /\ UNCHANGED reservations
                    /\ response' = "server_error"
               ELSE /\ reservations' = [reservations EXCEPT ![k].status = "fulfilled"]
                    /\ response' = "returned"
    /\ workers' = [workers EXCEPT ![w] = Served(workers[w].borrowing, response')]
    /\ UNCHANGED <<today, is_available, borrowings, borrow_requests, return_requests,
                   profiles, flow, fine_out, catalog, failed_dispatches>>

\* approve_return_request: return_request.status = 'approved', the processing
\* metadata, return_request.save()
arr_save_request(w) ==
    /\ workers[w].pc = "return_save_request"
    /\ \E admin_notes \in AdminNotes :
           return_requests' = [return_requests EXCEPT
               ![workers[w].request] = Processed(@, "approved", admin_notes, today)]
    /\ response' = "return_approved"
    /\ workers' = [workers EXCEPT ![w] = Served(workers[w].borrowing, "return_approved")]
    /\ UNCHANGED <<today, is_available, borrowings, borrow_requests, reservations,
                   profiles, flow, fine_out, catalog, failed_dispatches>>

NextReturn ==
    \/ (\E u \in Members, b \in Books, d \in Durations : borrow_book(u, b, d))
           /\ UNCHANGED flow
    \/ (\E u \in Members, i \in Ids(borrowings) : return_book(u, i)) /\ UNCHANGED flow
    \/ \E w \in Workers, r \in Ids(borrow_requests) : abr_get_request(w, r)
    \/ \E w \in Workers : abr_check_book(w)
    \/ \E w \in Workers : abr_create_borrowing(w)
    \/ \E w \in Workers : abr_save_book(w)
    \/ \E w \in Workers : abr_load_requester(w)
    \/ \E w \in Workers : abr_save_requester(w)
    \/ \E w \in Workers : abr_save_request(w)
    \/ \E w \in Workers, i \in Ids(borrowings) : prd_get_borrowing(w, i)
    \/ \E w \in Workers, q \in Ids(return_requests) : arr_get_request(w, q)
    \/ \E w \in Workers : arr_get_borrowing(w)
    \/ \E w \in Workers : ret_save_borrowing(w)
    \/ \E w \in Workers : ret_save_book(w)
    \/ \E w \in Workers : ret_load_borrower(w)
    \/ \E w \in Workers : ret_save_borrower(w)
    \/ \E w \in Workers : prd_fulfil_reservation(w)
    \/ \E w \in Workers : arr_save_request(w)

SpecReturn == Init /\ [][NextReturn]_vars

\* ------------------------------------------------------------- SpecAccess
\* The request-management views behind @librarian_required, called by user
\* accounts of any staff flag and group membership, next to the member views
\* that open requests.

\* Group names in use: 'Librarian' and 'Library Admin' are the groups of
\* setup_groups and of the decorators; 'Librarians' is a group of the tests.
GroupNames == {"Librarian", "Library Admin", "Librarians"}

\* A user account: User.is_staff and the names of the user's groups.
Accounts == [is_staff : BOOLEAN, groups : SUBSET GroupNames]

\* user.groups.filter(name__in=['Librarian', 'Library Admin']).exists()
is_librarian(user) ==
    user.groups \cap {"Librarian", "Library Admin"} # {}

\* @login_required + @user_passes_test(is_librarian, login_url=redirect_url):
\* a logged-in user who fails the test is redirected to the login page and
\* the view is not called.
librarian_required(user, view) ==
    IF is_librarian(user)
    THEN view
    ELSE /\ response' = "redirect_to_login"
         /\ failed_dispatches' = {}
         /\ UNCHANGED <<today, db, workers, fine_out, catalog>>

\* manage_borrow_requests: the lists of pending and processed requests are
\* rendered; nothing is written.
manage_borrow_requests ==
    /\ response' = "requests_listed"
    /\ failed_dispatches' = {}
    /\ UNCHANGED <<today, db, workers, fine_out, catalog>>

NextAccess ==
    \/ (\E u \in Members, b \in Books, d \in Durations : borrow_book(u, b, d))
           /\ UNCHANGED flow
    \/ (\E u \in Members, b \in Books : quick_borrow(u, b)) /\ UNCHANGED flow
    \/ (\E u \in Members, i \in Ids(borrowings) : return_book(u, i)) /\ UNCHANGED flow
    \/ (\E user \in Accounts : librarian_required(user, manage_borrow_requests))
           /\ UNCHANGED flow
    \/ (\E user \in Accounts, r \in Ids(borrow_requests) :
            librarian_required(user, approve_borrow_request(r))) /\ UNCHANGED flow
    \/ (\E user \in Accounts, r \in Ids(borrow_requests) :
            librarian_required(user, deny_borrow_request(r))) /\ UNCHANGED flow
    \/ (\E user \in Accounts, q \in Ids(return_requests) :
            librarian_required(user, approve_return_request(q))) /\ UNCHANGED flow
    \/ (\E user \in Accounts, q \in Ids(return_requests) :
            librarian_required(user, deny_return_request(q))) /\ UNCHANGED flow

SpecAccess == Init /\ [][NextAccess]_vars

\* ================================================================== claims
BorrowedLoans(b) ==
    {i \in Ids(borrowings) : borrowings[i].book = b /\ borrowings[i].status = "borrowed"}

BorrowedBy(m) ==
    {i \in Ids(borrowings) : borrowings[i].borrower = m /\ borrowings[i].status = "borrowed"}

\* C1: in every state reached by a sequence of lending operations, a book is
\* unavailable exactly when some loan of it has status 'borrowed'.
C1_AvailableIffNoBorrowedLoan ==
    \A b \in Books : (~is_available[b]) <=> (BorrowedLoans(b) # {})

\* C1 witness: a book that was borrowed, returned and borrowed again.
C1_Witness ==
    \E i, j \in Ids(borrowings) :
        /\ borrowings[i].book = borrowings[j].book
        /\ borrowings[i].status = "returned"
        /\ borrowings[j].status = "borrowed"
        /\ ~is_available[borrowings[j].book]

\* C2 (as claimed): every member's current_books_count equals the number of
\* the member's loans with status 'borrowed'.
C2_CountEqualsBorrowedLoans ==
    \A m \in Members :
        profiles[m].current_books_count = Cardinality(BorrowedBy(m))

\* C3 (as claimed): of two concurrent approvals of different requests (of
\* different requesters) for the same book only one creates a loan: no book
\* has two loans with status 'borrowed' held by different borrowers.
C3_OneApprovalWinsPerBook ==
    \A i, j \in Ids(borrowings) :
        (/\ borrowings[i].book = borrowings[j].book
         /\ borrowings[i].status = "borrowed"
         /\ borrowings[j].status = "borrowed") =>
            borrowings[i].borrower = borrowings[j].borrower

\* C4: a return of a loan that is still borrowed marks it returned; a second
\* return of the same loan, by either return path, is rejected as already
\* returned (a second approval of the same return request as already
\* processed) and changes no loan, no book availability, no member counter
\* and no reservation.
C4_SecondReturnRejected ==
    [][ /\ \A u \in Members, i \in Ids(borrowings) :
            process_return_directly(u, i) =>
                IF borrowings[i].status = "returned"
                THEN /\ response' = "already_returned"
                     /\ UNCHANGED <<borrowings, is_available, profiles, reservations>>
                ELSE borrowings'[i].status = "returned"
        /\ \A q \in Ids(return_requests) :
            (/\ return_requests[q].status = "pending"
             /\ approve_return_request(q)) =>
                IF borrowings[return_requests[q].borrowing].status = "returned"
                THEN /\ response' = "already_returned"
                     /\ UNCHANGED <<borrowings, is_available, profiles, reservations>>
                ELSE borrowings'[return_requests[q].borrowing].status = "returned"
        /\ \A q \in Ids(return_requests) :
            (/\ return_requests[q].status # "pending"
             /\ approve_return_request(q)) =>
                /\ response' = "already_processed"
                /\ UNCHANGED db
      ]_vars

\* C4 witness: a second return was just rejected: a returned loan of an
\* available book, and the response "already returned".
C4_Witness ==
    /\ response = "already_returned"
    /\ \E i \in Ids(borrowings) :
          /\ borrowings[i].status = "returned"
          /\ borrowings[i].return_date # NoDate
          /\ is_available[borrowings[i].book]

\* The fine of a loan returned on return_date: nothing up to the due date, the
\* days late times the daily rate after it.
LateFine(due_date, return_date, daily_fine) ==
    IF return_date <= due_date THEN 0 ELSE (return_date - due_date) * daily_fine

\* C5 (as claimed): the fine calculated for a returned loan is 0 when it was
\* returned on or before its due date, the days late times the rate when it
\* was returned after it, and never negative.
C5_FineOfReturnedLoan ==
    fine_out.called =>
        /\ fine_out.fine >= 0
        /\ borrowings[1].status = "returned" =>
               fine_out.fine = LateFine(borrowings[1].due_date,
                                        borrowings[1].return_date,
                                        fine_out.daily_fine)

\* C6 (as claimed): a return, by either path, sets the loan's fine_amount to
\* the days late times the daily rate and adds exactly that to the borrower's
\* total_fines (0 and no change when the loan is not overdue).
C6_ReturnChargesFine ==
    [][ \A i \in Ids(borrowings) :
           (borrowings[i].status = "borrowed" /\ borrowings'[i].status = "returned") =>
               LET fine == LateFine(borrowings[i].due_date, today, DefaultDailyFine)
                   m == borrowings[i].borrower
               IN  /\ borrowings'[i].fine_amount = fine
                   /\ profiles'[m].total_fines = profiles[m].total_fines + fine
      ]_vars

\* C7: whenever a reservation moves from 'active' to 'fulfilled', no
\* reservation of the same book that was active at that moment has an earlier
\* reservation_date.
C7_FulfilledIsEarliest ==
    [][ \A k \in Ids(reservations) :
           (reservations[k].status = "active" /\ reservations'[k].status = "fulfilled") =>
               \A j \in ActiveReservations(reservations[k].book) :
                   reservations[k].reservation_date <= reservations[j].reservation_date
      ]_vars

\* C7 witness: right after a return, the earlier of two reservations of the
\* returned book is fulfilled and the later one is still active.
C7_Witness ==
    /\ response = "returned"
    /\ \E k, j \in Ids(reservations) :
          /\ reservations[k].book = reservations[j].book
          /\ is_available[reservations[k].book]
          /\ reservations[k].status = "fulfilled"
          /\ reservations[j].status = "active"
          /\ reservations[k].reservation_date < reservations[j].reservation_date

\* C8 (as claimed): every return of a loan of a book with an active
\* reservation, by either return path, moves exactly one reservation of the
\* book, an earliest one, from 'active' to 'fulfilled' and leaves the others.
C8_ReturnFulfilsOneReservation ==
    [][ \A i \in Ids(borrowings) :
           (/\ borrowings[i].status = "borrowed"
            /\ borrowings'[i].status = "returned"
            /\ ActiveReservations(borrowings[i].book) # {}) =>
               \E k \in FirstReservations(borrowings[i].book) :
                   reservations' = [reservations EXCEPT ![k].status = "fulfilled"]
      ]_vars

\* C9: after a borrow request, its approval and the return of the loan, with
\* no other request in between, the loan is 'returned' with a return_date, the
\* book is available again and the member's current_books_count is what it
\* was before the request.
C9_WorkflowRestores ==
    flow.stage = "done" =>
        /\ borrowings[flow.loan].status = "returned"
        /\ borrowings[flow.loan].return_date # NoDate
        /\ is_available[flow.book]
        /\ profiles[flow.member].current_books_count = flow.count0

\* C9 witness: a workflow that ran to its end through an approved return
\* request.
C9_Witness ==
    /\ flow.stage = "done"
    /\ flow.return_request \in Ids(return_requests)
    /\ borrowings[flow.loan].book = flow.book
    /\ borrowings[flow.loan].borrower = flow.member

\* C10: approving a pending request for an available book succeeds, appends
\* exactly one loan, 'borrowed', of the request's book and requester, due
\* today + requested_duration_days, makes the book unavailable, adds 1 to the
\* requester's current_books_count and sets the request 'approved'.
C10_ApprovalEffects ==
    [][ \A r \in Ids(borrow_requests) :
           (/\ borrow_requests[r].status = "pending"
            /\ is_available[borrow_requests[r].book]
            /\ approve_borrow_request(r)) =>
               LET req == borrow_requests[r] IN
               /\ response' = "borrow_approved"
               /\ borrowings' = Append(borrowings,
                      [book |-> req.book, borrower |-> req.requester,
                       due_date |-> today + req.requested_duration_days,
                       return_date |-> NoDate, status |-> "borrowed",
                       fine_amount |-> 0])
               /\ is_available' = [is_available EXCEPT ![req.book] = FALSE]
               /\ profiles'[req.requester].current_books_count =
                      profiles[req.requester].current_books_count + 1
               /\ \A m \in Members \ {req.requester} : profiles'[m] = profiles[m]
               /\ borrow_requests'[r].status = "approved"
               /\ \A s \in Ids(borrow_requests) \ {r} :
                      borrow_requests'[s] = borrow_requests[s]
      ]_vars

\* C10 witness: a request of the shortest duration was just approved.
C10_Witness ==
    /\ response = "borrow_approved"
    /\ \E r \in Ids(borrow_requests), i \in Ids(borrowings) :
          /\ borrow_requests[r].status = "approved"
          /\ borrow_requests[r].requested_duration_days = MinDurationDays
          /\ borrowings[i].book = borrow_requests[r].book
          /\ borrowings[i].borrower = borrow_requests[r].requester
          /\ borrowings[i].status = "borrowed"
          /\ borrowings[i].due_date = today + MinDurationDays
          /\ ~is_available[borrowings[i].book]

PendingRequests(b, m) ==
    {r \in Ids(borrow_requests) :
        /\ borrow_requests[r].book = b
        /\ borrow_requests[r].requester = m
        /\ borrow_requests[r].status = "pending"}

\* C11 (as claimed): in every reachable state there is at most one pending
\* BorrowRequest for any (book, member) pair, whichever of the web view and
\* the API action submitted the requests.
C11_OnePendingPerPair ==
    \A b \in Books, m \in Members : Cardinality(PendingRequests(b, m)) <= 1

\* C12: an approval of a pending request whose book is not available fails:
\* no loan is created, the book's availability and every member's
\* current_books_count are unchanged and the request stays 'pending'.
C12_UnavailableApprovalKeepsPending ==
    [][ \A r \in Ids(borrow_requests) :
           (/\ borrow_requests[r].status = "pending"
            /\ ~is_available[borrow_requests[r].book]
            /\ approve_borrow_request(r)) =>
               /\ response' = "book_no_longer_available"
               /\ UNCHANGED <<borrowings, is_available, profiles>>
               /\ borrow_requests' = borrow_requests
               /\ borrow_requests'[r].status = "pending"
      ]_vars

\* C12 witness: an approval was just refused for a request that is still
\* pending while its book is on loan.
C12_Witness ==
    /\ response = "book_no_longer_available"
    /\ \E r \in Ids(borrow_requests) :
          /\ borrow_requests[r].status = "pending"
          /\ ~is_available[borrow_requests[r].book]
          /\ BorrowedLoans(borrow_requests[r].book) # {}

\* C13: reserve creates a reservation only when the book is unavailable and
\* the member holds no active reservation of it; the new reservation is
\* 'active' and expires 7 days after its creation.  A reserve call on an
\* available book, or by a member with an active reservation of the book, is
\* rejected and leaves the reservations unchanged.
C13_ReserveOnlyUnavailable ==
    [][ \A u \in Members, b \in Books :
           reserve_book(u, b) =>
               IF /\ ~is_available[b]
                  /\ ~\E k \in ActiveReservations(b) : reservations[k].user = u
               THEN /\ response' = "reserved"
                    /\ reservations' = Append(reservations,
                           [book |-> b, user |-> u, reservation_date |-> today,
                            expiry_date |-> today + ReservationDays,
                            status |-> "active"])
               ELSE /\ response' \in {"book_is_available", "already_reserved"}
                    /\ UNCHANGED reservations
      ]_vars

\* C13 witness: a reservation of a book on loan was just created, after an
\* earlier reservation of the same member had been fulfilled.
C13_Witness ==
    /\ response = "reserved"
    /\ \E k, j \in Ids(reservations) :
          /\ k = Len(reservations)
          /\ reservations[k].status = "active"
          /\ reservations[k].expiry_date = reservations[k].reservation_date + ReservationDays
          /\ ~is_available[reservations[k].book]
          /\ reservations[j].user = reservations[k].user
          /\ reservations[j].status = "fulfilled"

\* C18 (as claimed): every loan was created by the approval of a borrow
\* request: for each loan there is an 'approved' BorrowRequest of the same
\* book and member.
C18_LoanHasApprovedRequest ==
    \A i \in Ids(borrowings) :
        \E r \in Ids(borrow_requests) :
            /\ borrow_requests[r].status = "approved"
            /\ borrow_requests[r].book = borrowings[i].book
            /\ borrow_requests[r].requester = borrowings[i].borrower

\* C15: can_borrow_books is true exactly when the member is 'active', has
\* current_books_count < max_books_allowed and total_fines below the ceiling
\* of 50: the API borrow action answers "not eligible" exactly for the other
\* members, among them a suspended member and a member at the limit.
C15_CanBorrowExactly ==
    [][ \A u \in Members, b \in Books, d \in Durations :
           api_borrow(u, b, d) =>
               ((response' # "not_eligible") <=>
                   (/\ profiles[u].status = "active"
                    /\ profiles[u].current_books_count < profiles[u].max_books_allowed
                    /\ profiles[u].total_fines < 50))
      ]_vars

\* C15 witness: the API action just refused a request while an active member
\* with a fine balance below the ceiling is at the borrowing limit and every
\* other member is eligible.
C15_Witness ==
    /\ response = "not_eligible"
    /\ \E m \in Members :
          /\ profiles[m].status = "active"
          /\ profiles[m].total_fines < FineCeiling
          /\ profiles[m].current_books_count = profiles[m].max_books_allowed
          /\ \A n \in Members \ {m} : can_borrow_books(profiles[n])

\* C16 (as claimed): an approval for a member who is not active, is at the
\* borrowing limit or has fines at the ceiling creates no loan, and no
\* member's current_books_count ever exceeds max_books_allowed.
C16_ApprovalChecksEligibility ==
    [][ /\ \A r \in Ids(borrow_requests) :
             (/\ borrow_requests[r].status = "pending"
              /\ ~can_borrow_books(profiles[borrow_requests[r].requester])
              /\ approve_borrow_request(r)) =>
                 UNCHANGED borrowings
        /\ \A m \in Members :
             profiles'[m].current_books_count <= profiles'[m].max_books_allowed
      ]_vars

\* C14: in every reachable state, also under interleaved reserve calls, no
\* member holds two 'active' reservations of the same book, and an insert of
\* a second active reservation of the same (book, member) is rejected.
C14_OneActiveReservationPerPair ==
    [][ /\ \A k, j \in Ids(reservations') :
             (/\ k # j
              /\ reservations'[k].book = reservations'[j].book
              /\ reservations'[k].user = reservations'[j].user
              /\ reservations'[k].status = "active") =>
                 reservations'[j].status # "active"
        /\ \A w \in Workers :
             (/\ rb_create_reservation(w)
              /\ \E k \in ActiveReservations(workers[w].book) :
                     reservations[k].user = workers[w].user) =>
                 /\ UNCHANGED reservations
                 /\ response' = "server_error"
      ]_vars

\* C14 witness: the insert of a racing reserve call was just rejected: the
\* book is on loan and exactly one reservation of it is active.
C14_Witness ==
    /\ response = "server_error"
    /\ \E b \in Books :
          /\ ~is_available[b]
          /\ Cardinality(ActiveReservations(b)) = 1

\* C17 (as claimed): no two Book rows ever share a serial.
C17_SerialsUnique ==
    \A a, b \in Ids(catalog) : a # b => catalog[a].serial # catalog[b].serial

\* C20 (as claimed): when the dispatch of a notification fails during a
\* return of a borrowed loan, by either return path, the loan is 'returned',
\* the book is available, the borrower's current_books_count is decremented
\* (not below 0) and the operation reports success.
C20_DispatchFailureKeepsReturn ==
    [][ \A i \in Ids(borrowings) :
           (/\ borrowings[i].status = "borrowed"
            /\ failed_dispatches' # {}
            /\ \/ \E u \in Members : process_return_directly(u, i)
               \/ \E q \in Ids(return_requests) :
                     /\ return_requests[q].borrowing = i
                     /\ approve_return_request(q)) =>
               LET m == borrowings[i].borrower
                   count == profiles[m].current_books_count
               IN  /\ borrowings'[i].status = "returned"
                   /\ is_available'[borrowings[i].book]
                   /\ profiles'[m].current_books_count =
                          (IF count > 0 THEN count - 1 ELSE 0)
                   /\ response' \in {"returned", "return_approved"}
      ]_vars

\* The reservations after a sweep as of the day T: the 'active' rows with
\* expiry_date < T become 'expired', every other row is as it was.
SweptAsOf(rows, T) ==
    [k \in DOMAIN rows |->
        IF rows[k].status = "active" /\ rows[k].expiry_date < T
        THEN [rows[k] EXCEPT !.status = "expired"]
        ELSE rows[k]]

\* C19 (as claimed): the expiry sweep run on day T moves exactly the 'active'
\* reservations with expiry_date < T to 'expired' and changes no other
\* reservation, and a second run on the same day changes nothing.
C19_SweepExpiresExactly ==
    [][ cleanup_expired_reservations =>
           /\ reservations' = SweptAsOf(reservations, today)
           /\ SweptAsOf(reservations', today) = reservations'
      ]_vars

\* C30 (as claimed): a return attempt, by return_book or
\* process_return_directly, of a member who is not the borrower of the loan
\* (the members hold no librarian group) is refused and leaves the loan, the
\* book and the member unchanged.
C30_ReturnOnlyByBorrower ==
    [][ \A u \in Members, i \in Ids(borrowings) :
           (/\ u # borrowings[i].borrower
            /\ \/ return_book(u, i)
               \/ process_return_directly(u, i)) =>
               /\ UNCHANGED <<borrowings, is_available, profiles>>
               /\ response' \notin {"returned", "request_submitted"}
      ]_vars

\* C28 (as claimed): the return of a borrowed loan of a book with an active
\* reservation completes without error and leaves the earliest active
\* reservation 'fulfilled', whatever reservations the member already has.
C28_FulfilAlwaysSucceeds ==
    [][ \A u \in Members, i \in Ids(borrowings) :
           (/\ borrowings[i].status = "borrowed"
            /\ ActiveReservations(borrowings[i].book) # {}
            /\ process_return_directly(u, i)) =>
               /\ response' = "returned"
               /\ \E k \in FirstReservations(borrowings[i].book) :
                      reservations'[k].status = "fulfilled"
      ]_vars

\* C27 (as claimed): when a return fulfils a reservation, every active
\* reservation of the book with the same reservation_date has a larger id:
\* ties of the timestamp are broken by the smaller reservation id.
C27_TieBrokenBySmallerId ==
    [][ \A u \in Members, i \in Ids(borrowings), k \in Ids(reservations) :
           (/\ process_return_directly(u, i)
            /\ reservations[k].status = "active"
            /\ reservations'[k].status = "fulfilled") =>
               \A j \in ActiveReservations(reservations[k].book) :
                   reservations[j].reservation_date = reservations[k].reservation_date
                       => k <= j
      ]_vars

\* C25 (as claimed): a return or an approval that fails leaves none of its
\* writes behind: when the request ends in a server error, no loan, no book
\* availability, no member counter and no reservation has changed.
C25_FailedOperationWritesNothing ==
    [][ ((\/ \E u \in Members, i \in Ids(borrowings) : process_return_directly(u, i)
          \/ \E q \in Ids(return_requests) : approve_return_request(q)
          \/ \E r \in Ids(borrow_requests) : approve_borrow_request(r))
         /\ response' = "server_error") =>
            UNCHANGED <<borrowings, is_available, profiles, reservations>>
      ]_vars

\* C29: after every step each loan has a return_date exactly when its status
\* is 'returned', and a loan that was 'returned' before the step is still
\* 'returned' and still has a return_date: the status only moves from
\* 'borrowed' to 'returned'.
C29_ReturnedIsFinal ==
    [][ \A i \in Ids(borrowings') :
           /\ (borrowings'[i].return_date # NoDate) <=> (borrowings'[i].status = "returned")
           /\ borrowings'[i].status \in {"borrowed", "returned"}
           /\ (i \in Ids(borrowings) /\ borrowings[i].status = "returned") =>
                  /\ borrowings'[i].status = "returned"
                  /\ borrowings'[i].return_date # NoDate
      ]_vars

\* C29 witness: a loan returned on an earlier day is still 'returned' with its
\* return_date, while a later loan of the same book is 'borrowed' with none.
C29_Witness ==
    \E i, j \in Ids(borrowings) :
        /\ borrowings[i].status = "returned"
        /\ borrowings[i].return_date # NoDate
        /\ borrowings[i].return_date < today
        /\ borrowings[j].book = borrowings[i].book
        /\ borrowings[j].status = "borrowed"
        /\ borrowings[j].return_date = NoDate

\* C21: submitting a borrow request, denying a pending borrow request and
\* denying a pending return request change no book's availability, no
\* member's counters, no loan and no reservation; a submission only appends a
\* request, and a deny only sets the status of its request to 'denied' and
\* writes its processing metadata.
C21_RequestOnlyOperations ==
    [][ /\ \A u \in Members, b \in Books, d \in Durations :
             borrow_book(u, b, d) =>
                 /\ UNCHANGED <<is_available, profiles, borrowings, reservations,
                                return_requests>>
                 /\ \A s \in Ids(borrow_requests) :
                        borrow_requests'[s] = borrow_requests[s]
        /\ \A r \in Ids(borrow_requests) :
             (borrow_requests[r].status = "pending" /\ deny_borrow_request(r)) =>
                 /\ UNCHANGED <<is_available, profiles, borrowings, reservations,
                                return_requests>>
                 /\ Len(borrow_requests') = Len(borrow_requests)
                 /\ \A s \in Ids(borrow_requests) \ {r} :
                        borrow_requests'[s] = borrow_requests[s]
                 /\ borrow_requests'[r].status = "denied"
                 /\ borrow_requests'[r].book = borrow_requests[r].book
                 /\ borrow_requests'[r].requester = borrow_requests[r].requester
                 /\ borrow_requests'[r].requested_duration_days =
                        borrow_requests[r].requested_duration_days
        /\ \A q \in Ids(return_requests) :
             (return_requests[q].status = "pending" /\ deny_return_request(q)) =>
                 /\ UNCHANGED <<is_available, profiles, borrowings, reservations,
                                borrow_requests>>
                 /\ Len(return_requests') = Len(return_requests)
                 /\ \A s \in Ids(return_requests) \ {q} :
                        return_requests'[s] = return_requests[s]
                 /\ return_requests'[q].status = "denied"
                 /\ return_requests'[q].borrowing = return_requests[q].borrowing
                 /\ return_requests'[q].requester = return_requests[q].requester
      ]_vars

\* C21 witness: a return request was just denied: its loan is still
\* 'borrowed', the book is still unavailable, and a borrow request of the
\* book was denied before.
C21_Witness ==
    /\ response = "return_denied"
    /\ \E q \in Ids(return_requests), r \in Ids(borrow_requests) :
          /\ return_requests[q].status = "denied"
          /\ return_requests[q].processed_date = today
          /\ borrowings[return_requests[q].borrowing].status = "borrowed"
          /\ ~is_available[borrowings[return_requests[q].borrowing].book]
          /\ borrow_requests[r].status = "denied"

\* C26: a borrow or return request that is 'approved' or 'denied' is never
\* changed again, in status, admin notes or processing date, and an approve
\* or deny call for it changes no loan, no book availability, no member
\* counter and no reservation: no second loan and no second return.
C26_ProcessedIsTerminal ==
    [][ /\ \A r \in Ids(borrow_requests) :
             borrow_requests[r].status \in {"approved", "denied"} =>
                 /\ borrow_requests'[r] = borrow_requests[r]
                 /\ (approve_borrow_request(r) \/ deny_borrow_request(r)) =>
                        UNCHANGED <<borrowings, is_available, profiles, reservations>>
        /\ \A q \in Ids(return_requests) :
             return_requests[q].status \in {"approved", "denied"} =>
                 /\ return_requests'[q] = return_requests[q]
                 /\ (approve_return_request(q) \/ deny_return_request(q)) =>
                        UNCHANGED <<borrowings, is_available, profiles, reservations>>
      ]_vars

\* C26 witness: a call for a return request approved on an earlier day was
\* just answered "already processed"; the request is as the approval left it
\* and a denied borrow request exists.
C26_Witness ==
    /\ response = "already_processed"
    /\ \E q \in Ids(return_requests), r \in Ids(borrow_requests) :
          /\ return_requests[q].status = "approved"
          /\ return_requests[q].processed_date # NoDate
          /\ return_requests[q].processed_date < today
          /\ borrowings[return_requests[q].borrowing].status = "returned"
          /\ borrow_requests[r].status = "denied"

\* A request-management call of the user: the listing, or an approve or deny
\* of a borrow or return request.
ManagementCall(user) ==
    \/ librarian_required(user, manage_borrow_requests)
    \/ \E r \in Ids(borrow_requests) :
           \/ librarian_required(user, approve_borrow_request(r))
           \/ librarian_required(user, deny_borrow_request(r))
    \/ \E q \in Ids(return_requests) :
           \/ librarian_required(user, approve_return_request(q))
           \/ librarian_required(user, deny_return_request(q))

\* C22 (as claimed): a request-management call of an account with
\* is_staff = True is served, not redirected to the login page; the call of
\* a regular member (no staff flag, no group) is redirected and changes no
\* table.
C22_StaffServedMembersRefused ==
    [][ \A user \in Accounts :
           /\ (user.is_staff /\ ManagementCall(user)) =>
                  response' # "redirect_to_login"
           /\ (~user.is_staff /\ user.groups = {} /\ ManagementCall(user)) =>
                  /\ response' = "redirect_to_login"
                  /\ UNCHANGED db
      ]_vars

\* C23 (as claimed): of two return calls for the same loan, served by two
\* workers, at most one succeeds (and decrements the member's count); the
\* other one fails as already returned or already processed.
C23_OneReturnSucceeds ==
    \A w1, w2 \in Workers :
        (/\ w1 # w2
         /\ workers[w1].borrowing # 0
         /\ workers[w1].borrowing = workers[w2].borrowing
         /\ workers[w1].result \in {"returned", "return_approved"}) =>
            workers[w2].result \notin {"returned", "return_approved"}

\* C24 (as claimed): every write of a member's current_books_count applies
\* the operation's change to the value the row holds at that moment: an
\* approval adds 1 to it, a return takes 1 from it (not below 0).
C24_CounterUpdatesAtomic ==
    [][ \A w \in Workers :
           /\ abr_save_requester(w) =>
                  LET m == borrow_requests[workers[w].request].requester IN
                  profiles'[m].current_books_count =
                      profiles[m].current_books_count + 1
           /\ ret_save_borrower(w) =>
                  LET m == workers[w].instance.borrower IN
                  profiles'[m].current_books_count =
                      (IF profiles[m].current_books_count > 0
                       THEN profiles[m].current_books_count - 1 ELSE 0)
      ]_vars

====
